---- MODULE Spec2Model ----
(***************************************************************************)
(* The Empower agent of srsenb (srsenb/src/empoweragent.cc): Agent::init,  *)
(* Agent::start, Agent::mainLoop and Agent::fillHeader, as a state machine *)
(* with one step per call the loop makes into the transport (IO) or the    *)
(* codec (MessageDecoder / MessageEncoder).  The transport and the codec   *)
(* are the environment: what they return is a nondeterministic choice.     *)
(***************************************************************************)
EXTENDS Integers, FiniteSets, Sequences, TLC

VARIABLES
  args,                 \* the srsenb configuration handed to init (all_args)
  priv,                 \* mPrivateBits, all fields but the sequence
  sequence,             \* mPrivateBits->sequence
  pc,                   \* where the agent is: constructed .. the loop's statements
  ioDelay,              \* the delay configured on the IO object (io.delay())
  connClosed,           \* what io.isConnectionClosed() reports
  performPeriodicTasks, \* local of the loop body
  dataIsAvailable,      \* local of the loop body
  messageBuffer,        \* what io.readMessage returned in this iteration
  writeBuffer,          \* the message the encoder holds, ready for writeMessage
  len,                  \* what the last io.writeMessage returned
  lastMsg,              \* observer: the last message handed to writeMessage
  prevSeq,              \* observer: the sequence number of the message before it
  nSent,                \* observer: how many messages were written (saturating)
  after,                \* observer: the keep-alives since the last capabilities response
  iter,                 \* observer: what the current iteration did so far
  run,                  \* observer: the current run of connected idle ticks
  allClosed,            \* observer: every isConnectionClosed() so far said closed
  initReturn,           \* what init returned to its caller, "none" before the call
  everTimedOut          \* observer: some io.isDataAvailable() has timed out

vars == <<args, priv, sequence, pc, ioDelay, connClosed, performPeriodicTasks,
          dataIsAvailable, messageBuffer, writeBuffer, len, lastMsg, prevSeq,
          nSent, after, iter, run, allClosed, initReturn, everTimedOut>>

-----------------------------------------------------------------------------
(* Bounds of the model.                                                     *)

\* The sequence counter is a std::uint32_t; the model keeps SeqBits bits of it.
SeqBits == 3

\* The observer counts this many messages past the first wrap of the counter.
ExtraSent == 2

\* The observer follows a run of connected idle ticks for this many ticks.
MaxRun == 3

SeqModulus == 2 ^ SeqBits

MaxSent == SeqModulus + ExtraSent

-----------------------------------------------------------------------------
(* Widths of the fields of Agent::PrivateBits.                              *)

U8(x) == x % 256

U16(x) == x % 65536

\* A std::uint32_t copied from a 32-bit field of all_args: the value is kept.
U32(x) == x

\* static_cast<std::uint64_t>(enbId): widening, the value is kept.
U64(x) == x

-----------------------------------------------------------------------------
(* The protocol vocabulary the agent uses.                                  *)

MessageClass == {"REQUEST_SET", "REQUEST_GET", "RESPONSE_SUCCESS", "RESPONSE_FAILURE"}

RequestClass == {"REQUEST_SET", "REQUEST_GET"}

ResponseClass == {"RESPONSE_SUCCESS", "RESPONSE_FAILURE"}

EntityClass == {"HELLO_SERVICE", "CAPABILITIES_SERVICE", "OTHER_SERVICE"}

\* What io.readMessage can hand back: an empty buffer, bytes the decoder
\* rejects, or bytes that decode to a header.
\* A rejected buffer still has header bytes, which read as any classes.
Buffers ==
  { [kind |-> "empty", messageClass |-> "none", entityClass |-> "none"] }
  \cup { [kind |-> k, messageClass |-> mc, entityClass |-> ec] :
           k \in {"malformed", "message"}, mc \in MessageClass, ec \in EntityClass }

NoBuffer == [kind |-> "none", messageClass |-> "none", entityClass |-> "none"]

NoMsg == [sequence |-> -1, elementId |-> -1, messageClass |-> "none",
          entityClass |-> "none", tlv |-> <<>>]

NoSeq == NoMsg.sequence

\* messageBuffer.empty()
empty(buf) == buf.kind = "empty"

\* The decoder's verdict not looked at.
isFailureIgnored(buf) == FALSE

\* MessageDecoder::isFailure()
isFailure(buf) == buf.kind # "message"

-----------------------------------------------------------------------------
(* The configuration.                                                       *)

ValidAddresses == {"127.0.0.1"}

HostConfigs ==
  { [controller_addr |-> "127.0.0.1", controller_port |-> 2210, delayms |-> 2000,
     pci |-> 5, n_prb |-> 25, dl_earfcn |-> 1850, ul_earfcn |-> 19850,
     enb_id |-> 411],
    [controller_addr |-> "127.0.0.1", controller_port |-> 2211, delayms |-> 1500,
     pci |-> 1, n_prb |-> 50, dl_earfcn |-> 3400, ul_earfcn |-> 21400,
     enb_id |-> 7],
    [controller_addr |-> "not-an-address", controller_port |-> 2210, delayms |-> 2000,
     pci |-> 5, n_prb |-> 25, dl_earfcn |-> 1850, ul_earfcn |-> 19850,
     enb_id |-> 411] }

\* The assignments of init's try block, lines 65-82.
CopyConfig(a) ==
  [controllerAddress |-> a.controller_addr,
   controllerPort    |-> U16(a.controller_port),
   delayms           |-> U32(a.delayms),
   pci               |-> U16(a.pci),
   dlEarfcn          |-> U32(a.dl_earfcn),
   ulEarfcn          |-> U32(a.ul_earfcn),
   nPrb              |-> U8(a.n_prb),
   enbId             |-> U32(a.enb_id)]

\* `new PrivateBits` leaves every field indeterminate.
Indeterminate == { CopyConfig(a) : a \in HostConfigs }

-----------------------------------------------------------------------------
(* The observer's records.                                                  *)

FreshIter ==
  [started |-> FALSE, seq0 |-> 0, open |-> 0, sleep |-> 0, poll |-> 0, read |-> 0,
   fill |-> 0, write |-> 0, sendCheck |-> "none", retest |-> "none"]

NoRun == [len |-> 0, seq0 |-> 0, sent |-> 0, tlv |-> <<>>]

\* The iteration that just ended was an idle tick on an open connection.
ConnectedIdleTick(it) == it.sendCheck = "open"

RunAfter(it, msg) ==
  IF ConnectedIdleTick(it)
    THEN IF run.len = 0 \/ run.len >= MaxRun
           THEN [len |-> 1, seq0 |-> it.seq0, sent |-> it.write, tlv |-> msg.tlv]
           ELSE [run EXCEPT !.len = @ + 1, !.sent = @ + it.write]
    ELSE NoRun

\* The loop body ends: for (;;) goes back to its first statement.
EndIteration(it, msg) ==
  /\ pc' = "top"
  /\ iter' = it
  /\ run' = RunAfter(it, msg)

\* io.writeMessage(data) is called: the observer records the message.
Written(msg) ==
  /\ lastMsg' = msg
  /\ prevSeq' = lastMsg.sequence
  /\ nSent' = IF nSent > MaxSent THEN nSent ELSE nSent + 1
  /\ after' = IF msg.entityClass = "CAPABILITIES_SERVICE"
                THEN [seq |-> msg.sequence, hellos |-> 0]
                ELSE [after EXCEPT !.hellos = IF @ > MaxRun THEN @ ELSE @ + 1]

-----------------------------------------------------------------------------
(* Agent::Agent, Agent::init, Agent::start.                                 *)

Init ==
  /\ args \in HostConfigs
  /\ priv \in Indeterminate
  /\ sequence \in 0 .. SeqModulus - 1
  /\ pc = "constructed"
  /\ ioDelay = 0
  /\ connClosed = TRUE
  /\ performPeriodicTasks = FALSE
  /\ dataIsAvailable = FALSE
  /\ messageBuffer = NoBuffer
  /\ writeBuffer = NoMsg
  /\ len = "none"
  /\ lastMsg = NoMsg
  /\ prevSeq = NoSeq
  /\ nSent = 0
  /\ after = [seq |-> NoSeq, hellos |-> 0]
  /\ iter = FreshIter
  /\ run = NoRun
  /\ allClosed = TRUE
  /\ initReturn = "none"
  /\ everTimedOut = FALSE

\* NetworkLib::IPv4Address(string) throws on a string that is no address.
AddressThrows(a) == a.controller_addr \notin ValidAddresses

InitialSequence == 1

\* init, no exception: lines 65-85 and `return false`.
InitOk ==
  /\ pc = "constructed"
  /\ ~AddressThrows(args)
  /\ priv' = CopyConfig(args)
  /\ sequence' = InitialSequence
  /\ pc' = "inited"
  /\ initReturn' = "false"
  /\ UNCHANGED <<args, everTimedOut, ioDelay, connClosed,
                 performPeriodicTasks, dataIsAvailable, messageBuffer,
                 writeBuffer, len, lastMsg, prevSeq, nSent, after, iter, run,
                 allClosed>>

\* The catch block reporting "no error".
InitFailsReportsSuccess ==
  /\ pc = "constructed"
  /\ AddressThrows(args)
  /\ pc' = "inited"
  /\ initReturn' = "false"
  /\ UNCHANGED <<args, everTimedOut, priv, sequence, ioDelay, connClosed,
                 performPeriodicTasks, dataIsAvailable, messageBuffer,
                 writeBuffer, len, lastMsg, prevSeq, nSent, after, iter, run,
                 allClosed>>

\* init, the first statement of the try block throws: lines 87-89, `return true`.
InitFails ==
  /\ pc = "constructed"
  /\ AddressThrows(args)
  /\ pc' = "initFailed"
  /\ initReturn' = "true"
  /\ UNCHANGED <<args, everTimedOut, priv, sequence, ioDelay, connClosed,
                 performPeriodicTasks, dataIsAvailable, messageBuffer,
                 writeBuffer, len, lastMsg, prevSeq, nSent, after, iter, run,
                 allClosed>>

\* The host calls start() only after init() returned false.
HostMayStart == pc = "inited"

\* The thread started again once mainLoop has returned.
StartOrRestart ==
  /\ HostMayStart \/ pc = "done"
  /\ pc' = "setup"
  /\ UNCHANGED <<args, initReturn, everTimedOut, priv, sequence, ioDelay,
                 connClosed, performPeriodicTasks, dataIsAvailable,
                 messageBuffer, writeBuffer, len, lastMsg, prevSeq, nSent,
                 after, iter, run, allClosed>>

\* start: pthread_create succeeds, the thread runs run() -> mainLoop().
StartOk ==
  /\ HostMayStart
  /\ pc' = "setup"
  /\ UNCHANGED <<args, initReturn, everTimedOut, priv, sequence, ioDelay,
                 connClosed, performPeriodicTasks, dataIsAvailable,
                 messageBuffer, writeBuffer, len, lastMsg, prevSeq, nSent,
                 after, iter, run, allClosed>>

\* start: pthread_create fails, lines 108-111.
StartFails ==
  /\ HostMayStart
  /\ pc' = "startFailed"
  /\ UNCHANGED <<args, initReturn, everTimedOut, priv, sequence, ioDelay,
                 connClosed, performPeriodicTasks, dataIsAvailable,
                 messageBuffer, writeBuffer, len, lastMsg, prevSeq, nSent,
                 after, iter, run, allClosed>>

-----------------------------------------------------------------------------
(* Agent::fillHeader and the two messages the loop builds.                  *)

\* The counter advanced by two per header.
NextSequenceSkips(s) == (s + 2) % SeqModulus

\* The counter never advanced.
NextSequenceStuck(s) == s

\* ++(mPrivateBits->sequence), on a std::uint32_t kept to SeqBits bits.
NextSequence(s) == (s + 1) % SeqModulus

\* The header stamped with the counter's next value.
fillHeaderAfterIncrement(hdr) ==
  [hdr EXCEPT !.sequence = (sequence + 1) % SeqModulus,
              !.elementId = U64(priv.enbId)]

\* headerEncoder.sequence(sequence).elementId(uint64(enbId)), lines 266-267.
fillHeader(hdr) ==
  [hdr EXCEPT !.sequence = sequence, !.elementId = U64(priv.enbId)]

\* The two carrier numbers in each other's place.
tlvCellSwapped ==
  [pci |-> priv.pci, nPrb |-> priv.nPrb, dlEarfcn |-> priv.ulEarfcn,
   ulEarfcn |-> priv.dlEarfcn]

\* TLVCell, lines 199-204.
tlvCell ==
  [pci |-> priv.pci, nPrb |-> priv.nPrb, dlEarfcn |-> priv.dlEarfcn,
   ulEarfcn |-> priv.ulEarfcn]

\* TLVPeriodicityMs with io.delay(), lines 232-235.
tlvPeriodicity == [milliseconds |-> ioDelay]

\* The encoder's content after lines 192-206.
CapsResponse ==
  [fillHeader(NoMsg) EXCEPT !.messageClass = "RESPONSE_SUCCESS",
                            !.entityClass = "CAPABILITIES_SERVICE",
                            !.tlv = <<tlvCell>>]

\* The encoder's content after lines 237-245.
HelloRequest ==
  [fillHeader(NoMsg) EXCEPT !.messageClass = "REQUEST_SET",
                            !.entityClass = "HELLO_SERVICE",
                            !.tlv = <<tlvPeriodicity>>]

\* The HELLO_SERVICE case without its break, falling into the next case.
HandlerFallsThrough(buf) ==
  CASE buf.entityClass \in {"HELLO_SERVICE", "CAPABILITIES_SERVICE"} -> "capabilities"
    [] OTHER -> "unexpected"

\* The switch of line 178: which case a decoded message takes.
Handler(buf) ==
  CASE buf.entityClass = "HELLO_SERVICE" -> "discard"
    [] buf.entityClass = "CAPABILITIES_SERVICE" -> "capabilities"
    [] OTHER -> "unexpected"

\* A keep-alive held back when the last message sent was one.
SendsHelloUnlessRecent(closed) == ~closed /\ lastMsg.entityClass # "HELLO_SERVICE"

\* The test of the connection inverted.
SendsHelloInverted(closed) == closed

\* A keep-alive sent whatever the connection check reports.
SendsHelloAlways(closed) == TRUE

\* `if (!io.isConnectionClosed())` of line 228, given what the check reports.
SendsHello(closed) == ~closed

-----------------------------------------------------------------------------
(* Agent::mainLoop.                                                         *)

LoopPcs == {"top", "open", "retest", "sleep", "poll", "branch", "read", "decode",
            "dispatch", "capsEncode", "capsWrite", "log", "sendCheck",
            "helloEncode", "helloWrite"}

WriteResults == {"zero", "all"}

\* Lines 127-136, the two buffers are allocated.
SetupOk ==
  /\ pc = "setup"
  /\ ioDelay' = priv.delayms
  /\ connClosed' = TRUE
  /\ pc' = "top"
  /\ UNCHANGED <<args, initReturn, everTimedOut, priv, sequence,
                 performPeriodicTasks, dataIsAvailable, messageBuffer,
                 writeBuffer, len, lastMsg, prevSeq, nSent, after, iter, run,
                 allClosed>>

\* Lines 127-136, io.makeMessageBuffer() throws: caught at line 259.
SetupThrows ==
  /\ pc = "setup"
  /\ ioDelay' = priv.delayms
  /\ connClosed' = TRUE
  /\ pc' = "done"
  /\ UNCHANGED <<args, initReturn, everTimedOut, priv, sequence,
                 performPeriodicTasks, dataIsAvailable, messageBuffer,
                 writeBuffer, len, lastMsg, prevSeq, nSent, after, iter, run,
                 allClosed>>

\* openSocket() called at the start of every iteration, without the check.
TopAlwaysOpens ==
  /\ pc = "top"
  /\ performPeriodicTasks' = FALSE
  /\ dataIsAvailable' = FALSE
  /\ messageBuffer' = NoBuffer
  /\ iter' = [FreshIter EXCEPT !.started = TRUE, !.seq0 = sequence]
  /\ pc' = "open"
  /\ UNCHANGED <<args, initReturn, everTimedOut, priv, sequence, ioDelay,
                 connClosed, writeBuffer, len, lastMsg, prevSeq, nSent, after,
                 run, allClosed>>

\* Lines 140-143: a new iteration, and its first isConnectionClosed().
Top ==
  /\ pc = "top"
  /\ performPeriodicTasks' = FALSE
  /\ dataIsAvailable' = FALSE
  /\ messageBuffer' = NoBuffer
  /\ iter' = [FreshIter EXCEPT !.started = TRUE, !.seq0 = sequence]
  /\ allClosed' = (allClosed /\ connClosed)
  /\ pc' = IF connClosed THEN "open" ELSE "retest"
  /\ UNCHANGED <<args, initReturn, everTimedOut, priv, sequence, ioDelay,
                 connClosed, writeBuffer, len, lastMsg, prevSeq, nSent, after,
                 run>>

\* Line 145: io.openSocket(), which connects or fails to.
OpenSocket ==
  /\ pc = "open"
  /\ \E connected \in BOOLEAN : connClosed' = ~connected
  /\ iter' = [iter EXCEPT !.open = @ + 1]
  /\ pc' = "retest"
  /\ UNCHANGED <<args, initReturn, everTimedOut, priv, sequence, ioDelay,
                 performPeriodicTasks, dataIsAvailable, messageBuffer,
                 writeBuffer, len, lastMsg, prevSeq, nSent, after, run,
                 allClosed>>

\* The loop polls for data without testing the connection again.
RetestSkipped ==
  /\ pc = "retest"
  /\ pc' = "poll"
  /\ UNCHANGED <<args, initReturn, everTimedOut, priv, sequence, ioDelay,
                 connClosed, performPeriodicTasks, dataIsAvailable,
                 messageBuffer, writeBuffer, len, lastMsg, prevSeq, nSent,
                 after, iter, run, allClosed>>

\* Line 149: the second isConnectionClosed().
Retest ==
  /\ pc = "retest"
  /\ allClosed' = (allClosed /\ connClosed)
  /\ pc' = IF connClosed THEN "sleep" ELSE "poll"
  /\ iter' = [iter EXCEPT !.retest = IF connClosed THEN "closed" ELSE "open"]
  /\ UNCHANGED <<args, initReturn, everTimedOut, priv, sequence, ioDelay,
                 connClosed, performPeriodicTasks, dataIsAvailable,
                 messageBuffer, writeBuffer, len, lastMsg, prevSeq, nSent,
                 after, run>>

\* The idle tick marked without pausing: io.sleep() is not called.
SleepForgotten ==
  /\ pc = "sleep"
  /\ performPeriodicTasks' = TRUE
  /\ pc' = "branch"
  /\ UNCHANGED <<args, initReturn, everTimedOut, priv, sequence, ioDelay,
                 connClosed, dataIsAvailable, messageBuffer, writeBuffer, len,
                 lastMsg, prevSeq, nSent, after, iter, run, allClosed>>

\* Lines 152-153: io.sleep().
Sleep ==
  /\ pc = "sleep"
  /\ performPeriodicTasks' = TRUE
  /\ iter' = [iter EXCEPT !.sleep = @ + 1]
  /\ pc' = "branch"
  /\ UNCHANGED <<args, initReturn, everTimedOut, priv, sequence, ioDelay,
                 connClosed, dataIsAvailable, messageBuffer, writeBuffer, len,
                 lastMsg, prevSeq, nSent, after, run, allClosed>>

\* Lines 157-162: io.isDataAvailable(), data or timeout.
Poll ==
  /\ pc = "poll"
  /\ \E available \in BOOLEAN :
       /\ dataIsAvailable' = available
       /\ performPeriodicTasks' = ~available
       /\ everTimedOut' = (everTimedOut \/ ~available)
  /\ iter' = [iter EXCEPT !.poll = @ + 1]
  /\ pc' = "branch"
  /\ UNCHANGED <<args, initReturn, priv, sequence, ioDelay, connClosed,
                 messageBuffer, writeBuffer, len, lastMsg, prevSeq, nSent,
                 after, run, allClosed>>

\* Lines 165, 221, 253: the three-way branch of the loop body.
Branch ==
  /\ pc = "branch"
  /\ IF dataIsAvailable
       THEN pc' = "read" /\ UNCHANGED <<iter, run>>
       ELSE IF performPeriodicTasks
              THEN pc' = "log" /\ UNCHANGED <<iter, run>>
              ELSE EndIteration(iter, lastMsg)
  /\ UNCHANGED <<args, initReturn, everTimedOut, priv, sequence, ioDelay,
                 connClosed, performPeriodicTasks, dataIsAvailable,
                 messageBuffer, writeBuffer, len, lastMsg, prevSeq, nSent,
                 after, allClosed>>

\* An empty read taken for an idle tick: the periodic tasks run after it.
ReadMessageEmptyIsIdle ==
  /\ pc = "read"
  /\ \E buf \in Buffers :
       /\ messageBuffer' = buf
       /\ pc' = IF empty(buf) THEN "log" ELSE "decode"
  /\ iter' = [iter EXCEPT !.read = @ + 1]
  /\ UNCHANGED <<args, initReturn, everTimedOut, priv, sequence, ioDelay,
                 connClosed, performPeriodicTasks, dataIsAvailable,
                 writeBuffer, len, lastMsg, prevSeq, nSent, after, run,
                 allClosed>>

\* Lines 167-169: io.readMessage(readBuffer) and the test for an empty buffer.
ReadMessage ==
  /\ pc = "read"
  /\ \E buf \in Buffers :
       /\ messageBuffer' = buf
       /\ IF empty(buf)
            THEN EndIteration([iter EXCEPT !.read = @ + 1], lastMsg)
            ELSE /\ pc' = "decode"
                 /\ iter' = [iter EXCEPT !.read = @ + 1]
                 /\ UNCHANGED run
  /\ UNCHANGED <<args, initReturn, everTimedOut, priv, sequence, ioDelay,
                 connClosed, performPeriodicTasks, dataIsAvailable,
                 writeBuffer, len, lastMsg, prevSeq, nSent, after, allClosed>>

\* Lines 174-176: MessageDecoder and the test of isFailure().
Decode ==
  /\ pc = "decode"
  /\ IF isFailure(messageBuffer)
       THEN EndIteration(iter, lastMsg)
       ELSE pc' = "dispatch" /\ UNCHANGED <<iter, run>>
  /\ UNCHANGED <<args, initReturn, everTimedOut, priv, sequence, ioDelay,
                 connClosed, performPeriodicTasks, dataIsAvailable,
                 messageBuffer, writeBuffer, len, lastMsg, prevSeq, nSent,
                 after, allClosed>>

\* Lines 178-218: the switch on the decoded header's entity class.
Dispatch ==
  /\ pc = "dispatch"
  /\ IF Handler(messageBuffer) = "capabilities"
       THEN pc' = "capsEncode" /\ UNCHANGED <<iter, run>>
       ELSE EndIteration(iter, lastMsg)
  /\ UNCHANGED <<args, initReturn, everTimedOut, priv, sequence, ioDelay,
                 connClosed, performPeriodicTasks, dataIsAvailable,
                 messageBuffer, writeBuffer, len, lastMsg, prevSeq, nSent,
                 after, allClosed>>

\* The response encoded with an assignment to the pci in place of a read.
CapsEncodeClearsPci ==
  /\ pc = "capsEncode"
  /\ writeBuffer' = CapsResponse
  /\ sequence' = NextSequence(sequence)
  /\ priv' = [priv EXCEPT !.pci = 0]
  /\ iter' = [iter EXCEPT !.fill = @ + 1]
  /\ pc' = "capsWrite"
  /\ UNCHANGED <<args, initReturn, everTimedOut, ioDelay, connClosed,
                 performPeriodicTasks, dataIsAvailable, messageBuffer, len,
                 lastMsg, prevSeq, nSent, after, run, allClosed>>

\* Lines 192-206: the capabilities response is encoded, its header stamped.
CapsEncode ==
  /\ pc = "capsEncode"
  /\ writeBuffer' = CapsResponse
  /\ sequence' = NextSequence(sequence)
  /\ iter' = [iter EXCEPT !.fill = @ + 1]
  /\ pc' = "capsWrite"
  /\ UNCHANGED <<args, initReturn, everTimedOut, priv, ioDelay, connClosed,
                 performPeriodicTasks, dataIsAvailable, messageBuffer, len,
                 lastMsg, prevSeq, nSent, after, run, allClosed>>

\* The write made again when io.writeMessage returned 0 bytes.
CapsWriteRetries ==
  /\ pc = "capsWrite"
  /\ \E n \in WriteResults :
       /\ len' = n
       /\ IF n = "zero"
            THEN /\ pc' = "capsWrite"
                 /\ iter' = [iter EXCEPT !.write = @ + 1]
                 /\ UNCHANGED run
            ELSE EndIteration([iter EXCEPT !.write = @ + 1], writeBuffer)
  /\ Written(writeBuffer)
  /\ UNCHANGED <<args, initReturn, everTimedOut, priv, sequence, ioDelay,
                 connClosed, performPeriodicTasks, dataIsAvailable,
                 messageBuffer, writeBuffer, allClosed>>

\* Line 209: io.writeMessage(messageEncoder.data()).
CapsWrite ==
  /\ pc = "capsWrite"
  /\ len' \in WriteResults
  /\ Written(writeBuffer)
  /\ EndIteration([iter EXCEPT !.write = @ + 1], writeBuffer)
  /\ UNCHANGED <<args, initReturn, everTimedOut, priv, sequence, ioDelay,
                 connClosed, performPeriodicTasks, dataIsAvailable,
                 messageBuffer, writeBuffer, allClosed>>

\* Lines 224-226: the log line, which calls isConnectionClosed().
LogWaiting ==
  /\ pc = "log"
  /\ allClosed' = (allClosed /\ connClosed)
  /\ pc' = "sendCheck"
  /\ UNCHANGED <<args, initReturn, everTimedOut, priv, sequence, ioDelay,
                 connClosed, performPeriodicTasks, dataIsAvailable,
                 messageBuffer, writeBuffer, len, lastMsg, prevSeq, nSent,
                 after, iter, run>>

\* Line 228: the keep-alive is sent only on an open connection.
SendCheck ==
  /\ pc = "sendCheck"
  /\ allClosed' = (allClosed /\ connClosed)
  /\ IF SendsHello(connClosed)
       THEN /\ pc' = "helloEncode"
            /\ iter' = [iter EXCEPT !.sendCheck = IF connClosed THEN "closed" ELSE "open"]
            /\ UNCHANGED run
       ELSE EndIteration(
              [iter EXCEPT !.sendCheck = IF connClosed THEN "closed" ELSE "open"],
              lastMsg)
  /\ UNCHANGED <<args, initReturn, everTimedOut, priv, sequence, ioDelay,
                 connClosed, performPeriodicTasks, dataIsAvailable,
                 messageBuffer, writeBuffer, len, lastMsg, prevSeq, nSent,
                 after>>

\* Lines 232-245: the HELLO request is encoded, its header stamped.
HelloEncode ==
  /\ pc = "helloEncode"
  /\ writeBuffer' = HelloRequest
  /\ sequence' = NextSequence(sequence)
  /\ iter' = [iter EXCEPT !.fill = @ + 1]
  /\ pc' = "helloWrite"
  /\ UNCHANGED <<args, initReturn, everTimedOut, priv, ioDelay, connClosed,
                 performPeriodicTasks, dataIsAvailable, messageBuffer, len,
                 lastMsg, prevSeq, nSent, after, run, allClosed>>

\* Line 248: io.writeMessage(messageEncoder.data()).
HelloWrite ==
  /\ pc = "helloWrite"
  /\ len' \in WriteResults
  /\ Written(writeBuffer)
  /\ EndIteration([iter EXCEPT !.write = @ + 1], writeBuffer)
  /\ UNCHANGED <<args, initReturn, everTimedOut, priv, sequence, ioDelay,
                 connClosed, performPeriodicTasks, dataIsAvailable,
                 messageBuffer, writeBuffer, allClosed>>

\* The controller, or the network, closes the connection under the agent.
PeerCloses ==
  /\ pc \in LoopPcs
  /\ ~connClosed
  /\ connClosed' = TRUE
  /\ UNCHANGED <<args, initReturn, everTimedOut, priv, sequence, pc, ioDelay,
                 performPeriodicTasks, dataIsAvailable, messageBuffer,
                 writeBuffer, len, lastMsg, prevSeq, nSent, after, iter, run,
                 allClosed>>

Next ==
  \/ InitOk
  \/ InitFails
  \/ StartOk
  \/ StartFails
  \/ SetupOk
  \/ SetupThrows
  \/ Top
  \/ OpenSocket
  \/ Retest
  \/ Sleep
  \/ Poll
  \/ Branch
  \/ ReadMessage
  \/ Decode
  \/ Dispatch
  \/ CapsEncode
  \/ CapsWrite
  \/ LogWaiting
  \/ SendCheck
  \/ HelloEncode
  \/ HelloWrite
  \/ PeerCloses

Spec == Init /\ [][Next]_vars

\* One statement of the loop body, run by the agent's thread.
LoopStep ==
  \/ Top
  \/ OpenSocket
  \/ Retest
  \/ Sleep
  \/ Poll
  \/ Branch
  \/ ReadMessage
  \/ Decode
  \/ Dispatch
  \/ CapsEncode
  \/ CapsWrite
  \/ LogWaiting
  \/ SendCheck
  \/ HelloEncode
  \/ HelloWrite

\* The agent's thread keeps running: every call of the loop body returns
\* (the connect attempt, the sleep and the poll are bounded by the delay).
LiveSpec == Init /\ [][Next]_vars /\ WF_vars(LoopStep)

\* The statements of the loop body that call into the transport or the codec.
CallPcs == LoopPcs \ {"branch"}

\* A call of the loop body throws a std::exception: the handler of line 259
\* is outside for (;;), so the exception leaves the loop, is logged, and
\* mainLoop returns. An encoder that throws does so before or after
\* fillHeader has advanced the counter.
LowerLayerThrows ==
  /\ pc \in CallPcs
  /\ pc' = "done"
  /\ sequence' \in IF pc \in {"capsEncode", "helloEncode"}
                     THEN {sequence, NextSequence(sequence)}
                     ELSE {sequence}
  /\ UNCHANGED <<args, initReturn, everTimedOut, priv, ioDelay, connClosed,
                 performPeriodicTasks, dataIsAvailable, messageBuffer,
                 writeBuffer, len, lastMsg, prevSeq, nSent, after, iter, run,
                 allClosed>>

\* The agent with lower layers that may throw inside the loop.
SpecThrows == Init /\ [][Next \/ LowerLayerThrows]_vars

-----------------------------------------------------------------------------
(* The states between two iterations, and what was read in the last one.    *)

IterationEnded == pc = "top" /\ iter.started

Decoded(mcs, ecs) ==
  /\ messageBuffer.kind = "message"
  /\ messageBuffer.messageClass \in mcs
  /\ messageBuffer.entityClass \in ecs

\* A header is stamped and its message not yet handed to writeMessage.
Stamped == IF pc \in {"capsWrite", "helloWrite"} THEN 1 ELSE 0

-----------------------------------------------------------------------------
(* C1 *)

\* C1, as stated: the k-th message handed to writeMessage carries sequence
\* number k, and every message carries the configured enb_id as element id.
C1_KthCarriesK ==
  (1 <= nSent /\ nSent <= MaxSent) =>
    /\ lastMsg.sequence = nSent
    /\ lastMsg.elementId = args.enb_id

\* C1, amended: the k-th message carries k modulo the width of the counter;
\* the counter is 1 after init and is 1 plus the number of stamped headers,
\* modulo its width; every message carries the configured enb_id.
C1_KthCarriesKModWidth ==
  /\ pc = "inited" => sequence = 1
  /\ (pc \in LoopPcs /\ nSent <= MaxSent) =>
       sequence = (1 + nSent + Stamped) % SeqModulus
  /\ (1 <= nSent /\ nSent <= MaxSent) =>
       /\ lastMsg.sequence = nSent % SeqModulus
       /\ lastMsg.elementId = args.enb_id

\* Both kinds of message were sent and the counter has wrapped.
C1_Witness ==
  /\ nSent = SeqModulus + 1
  /\ lastMsg.sequence = 1
  /\ lastMsg.entityClass = "HELLO_SERVICE"
  /\ after.seq # NoSeq

-----------------------------------------------------------------------------
(* C2 *)

\* C2: an iteration that decoded a CAPABILITIES_SERVICE request wrote exactly
\* one message, a RESPONSE_SUCCESS for CAPABILITIES_SERVICE whose one cell TLV
\* holds the configured pci, n_prb, dl_earfcn and ul_earfcn.
C2_CapabilitiesAnswered ==
  (IterationEnded /\ Decoded(RequestClass, {"CAPABILITIES_SERVICE"})) =>
    /\ iter.write = 1
    /\ lastMsg.messageClass = "RESPONSE_SUCCESS"
    /\ lastMsg.entityClass = "CAPABILITIES_SERVICE"
    /\ lastMsg.tlv = <<[pci |-> args.pci, nPrb |-> args.n_prb,
                        dlEarfcn |-> args.dl_earfcn, ulEarfcn |-> args.ul_earfcn]>>

\* A capabilities request was answered, with the identity of the spec's scenario.
C2_Witness ==
  /\ IterationEnded
  /\ Decoded({"REQUEST_GET"}, {"CAPABILITIES_SERVICE"})
  /\ iter.write = 1
  /\ lastMsg.tlv = <<[pci |-> 5, nPrb |-> 25, dlEarfcn |-> 1850, ulEarfcn |-> 19850]>>

-----------------------------------------------------------------------------
(* C3 *)

\* C3: an iteration whose poll timed out and whose send check found the
\* connection open wrote exactly one message, a REQUEST_SET for HELLO_SERVICE
\* with one periodicity TLV holding the configured delay; k such iterations in
\* a row wrote exactly k of them, with the consecutive sequence numbers
\* N .. N+k-1 of the counter and the same TLV.
C3_KeepAlivePerIdleTick ==
  (IterationEnded /\ ConnectedIdleTick(iter)) =>
    /\ iter.poll = 1
    /\ iter.write = 1
    /\ lastMsg.messageClass = "REQUEST_SET"
    /\ lastMsg.entityClass = "HELLO_SERVICE"
    /\ lastMsg.tlv = <<[milliseconds |-> args.delayms]>>
    /\ lastMsg.sequence = iter.seq0
    /\ run.len >= 1
    /\ run.sent = run.len
    /\ lastMsg.sequence = (run.seq0 + run.len - 1) % SeqModulus
    /\ lastMsg.tlv = run.tlv

\* Three idle ticks in a row on an open connection, delay 2000 ms.
C3_Witness ==
  /\ IterationEnded
  /\ ConnectedIdleTick(iter)
  /\ run.len = 3
  /\ run.sent = 3
  /\ lastMsg.tlv = <<[milliseconds |-> 2000]>>

-----------------------------------------------------------------------------
(* C4 *)

\* C4: an idle tick whose send check found the connection closed wrote no
\* message, stamped no header and left the sequence counter as it was.
C4_NoKeepAliveWhenClosed ==
  (IterationEnded /\ iter.sendCheck = "closed") =>
    /\ iter.write = 0
    /\ iter.fill = 0
    /\ sequence = iter.seq0
    /\ iter.sleep + iter.poll = 1

\* The connection dropped between the timed-out poll and the send check.
C4_Witness ==
  /\ IterationEnded
  /\ iter.sendCheck = "closed"
  /\ iter.poll = 1
  /\ iter.sleep = 0
  /\ nSent > 0

-----------------------------------------------------------------------------
(* C5 *)

\* C5: as long as every isConnectionClosed() has reported closed, no
\* iteration polled, read or wrote, the sequence counter is at its initial
\* value, and every iteration that ended called openSocket() once and
\* sleep() once.
C5_ClosedOnEveryCheck ==
  (pc \in LoopPcs /\ allClosed) =>
    /\ iter.poll = 0
    /\ iter.read = 0
    /\ iter.write = 0
    /\ nSent = 0
    /\ sequence = InitialSequence
    /\ iter.open <= 1
    /\ iter.sleep <= 1
    /\ IterationEnded => (iter.open = 1 /\ iter.sleep = 1 /\ iter.sendCheck = "closed")

\* An iteration ended with every check closed, after an openSocket() that
\* did not connect.
C5_Witness ==
  /\ IterationEnded
  /\ allClosed
  /\ iter.open = 1
  /\ iter.sleep = 1
  /\ iter.sendCheck = "closed"

-----------------------------------------------------------------------------
(* C6 *)

\* The pairs (message class, entity class) the spec gives a handler.
HandledPair(buf) ==
  \/ buf.messageClass \in RequestClass /\ buf.entityClass = "CAPABILITIES_SERVICE"
  \/ buf.messageClass \in ResponseClass /\ buf.entityClass = "HELLO_SERVICE"

\* C6, as stated: an iteration that decoded a message of any other pair, a
\* CAPABILITIES_SERVICE message that is no request among them, wrote nothing
\* and left the sequence counter as it was.
C6_OtherPairsIgnored ==
  (IterationEnded /\ messageBuffer.kind = "message" /\ ~HandledPair(messageBuffer)) =>
    /\ iter.write = 0
    /\ iter.fill = 0
    /\ sequence = iter.seq0

-----------------------------------------------------------------------------
(* C7 *)

\* C7: an iteration that decoded a HELLO_SERVICE message of a response class
\* wrote nothing, stamped no header and left the sequence counter as it was.
C7_HelloReplyDiscarded ==
  (IterationEnded /\ Decoded(ResponseClass, {"HELLO_SERVICE"})) =>
    /\ iter.read = 1
    /\ iter.write = 0
    /\ iter.fill = 0
    /\ sequence = iter.seq0

\* The controller's reply to a keep-alive sent before was read and dropped.
C7_Witness ==
  /\ IterationEnded
  /\ Decoded({"RESPONSE_SUCCESS"}, {"HELLO_SERVICE"})
  /\ lastMsg.entityClass = "HELLO_SERVICE"
  /\ iter.write = 0

-----------------------------------------------------------------------------
(* C8 *)

\* The step on which the loop finds the buffer empty or the decoding failed.
DecodeFailureStep ==
  /\ pc' # pc
  /\ \/ pc = "read" /\ messageBuffer'.kind = "empty"
     \/ pc = "decode" /\ messageBuffer.kind = "malformed"

\* C8: on an empty buffer or a failed decoding the loop goes straight to its
\* next iteration, with no message written, the sequence counter and the
\* connection as they were; the iteration that ended so wrote nothing, and
\* the next one can start.
C8_DecodeFailureHarmless ==
  /\ [][DecodeFailureStep =>
          /\ pc' = "top"
          /\ sequence' = sequence
          /\ connClosed' = connClosed
          /\ lastMsg' = lastMsg
          /\ nSent' = nSent]_vars
  /\ []((IterationEnded /\ messageBuffer.kind \in {"empty", "malformed"}) =>
          /\ iter.read = 1
          /\ iter.write = 0
          /\ iter.fill = 0
          /\ sequence = iter.seq0
          /\ ENABLED Top)

\* A rejected buffer whose header bytes read as a capabilities request.
C8_Witness ==
  /\ IterationEnded
  /\ messageBuffer.kind = "malformed"
  /\ messageBuffer.entityClass = "CAPABILITIES_SERVICE"
  /\ messageBuffer.messageClass = "REQUEST_SET"
  /\ iter.write = 0

-----------------------------------------------------------------------------
(* C9 *)

\* C9: an iteration that decoded a capabilities request with the counter at N
\* wrote one message, the success response with sequence N, and no
\* keep-alive; the j-th keep-alive written after a capabilities response with
\* sequence N carries the counter's N+j.
C9_SharedCounter ==
  /\ (IterationEnded /\ Decoded(RequestClass, {"CAPABILITIES_SERVICE"})) =>
       /\ iter.write = 1
       /\ iter.fill = 1
       /\ lastMsg.entityClass = "CAPABILITIES_SERVICE"
       /\ lastMsg.sequence = iter.seq0
       /\ sequence = (iter.seq0 + 1) % SeqModulus
  /\ (after.seq # NoSeq /\ 1 <= after.hellos /\ after.hellos <= MaxRun) =>
       /\ lastMsg.entityClass = "HELLO_SERVICE"
       /\ lastMsg.sequence = (after.seq + after.hellos) % SeqModulus

\* Two keep-alives followed a capabilities response.
C9_Witness ==
  /\ IterationEnded
  /\ after.seq # NoSeq
  /\ after.hellos = 2
  /\ lastMsg.sequence = (after.seq + 2) % SeqModulus
  /\ lastMsg.entityClass = "HELLO_SERVICE"

-----------------------------------------------------------------------------
(* C10 *)

\* C10, as stated: of two messages written one after the other, the later
\* carries the strictly larger sequence number, however many were written.
C10_StrictlyIncreasing ==
  prevSeq # NoSeq => prevSeq < lastMsg.sequence

\* C10, amended: each message carries its predecessor's sequence number plus
\* one modulo the width of the counter, which is strictly larger for all
\* messages written before the counter wraps and whenever the later one is
\* not 0.
C10_IncreasingUntilWrap ==
  prevSeq # NoSeq =>
    /\ lastMsg.sequence = (prevSeq + 1) % SeqModulus
    /\ nSent < SeqModulus => prevSeq < lastMsg.sequence
    /\ lastMsg.sequence # 0 => prevSeq < lastMsg.sequence

\* The message written on the counter's wrap: 0 follows the largest value.
C10_Witness ==
  /\ nSent = SeqModulus
  /\ prevSeq = SeqModulus - 1
  /\ lastMsg.sequence = 0

-----------------------------------------------------------------------------
(* C11 *)

-----------------------------------------------------------------------------
(* C12 *)

\* C12, as stated: an iteration whose first connection check reported closed
\* called openSocket(), then sleep() exactly once whatever openSocket() did,
\* and neither polled nor read.
C12_AlwaysSleepsAfterOpen ==
  (IterationEnded /\ iter.open = 1) =>
    /\ iter.sleep = 1
    /\ iter.poll = 0
    /\ iter.read = 0

\* C12, amended: such an iteration called openSocket() exactly once; if the
\* check after it still reported closed, it called sleep() exactly once and
\* neither polled nor read; if that check reported open, it did not sleep
\* and polled for data in the same iteration.
C12_SleepsOnlyIfStillClosed ==
  /\ iter.open <= 1
  /\ (IterationEnded /\ iter.open = 1 /\ iter.retest = "closed") =>
       /\ iter.sleep = 1
       /\ iter.poll = 0
       /\ iter.read = 0
  /\ (IterationEnded /\ iter.open = 1 /\ iter.retest = "open") =>
       /\ iter.sleep = 0
       /\ iter.poll = 1
  /\ (IterationEnded /\ iter.open = 1) => iter.retest \in {"closed", "open"}

\* openSocket() connected, and the same iteration went on to read a message.
C12_Witness ==
  /\ IterationEnded
  /\ iter.open = 1
  /\ iter.retest = "open"
  /\ iter.sleep = 0
  /\ iter.read = 1

-----------------------------------------------------------------------------
(* C13 *)

\* C13, as stated: once the loop has started iterating it never reaches a
\* terminal state, whatever error a call of the loop body reports, an
\* exception thrown by the transport or the codec included.
C13_LoopNeverEnds ==
  iter.started => pc \in LoopPcs

-----------------------------------------------------------------------------
(* C14 *)

\* C14: when the allocation of the buffers throws, mainLoop returns before
\* its first iteration: no openSocket, no read and no write was or is ever
\* performed, the sequence counter stays at 1, and the loop is not started
\* again.
C14_SetupFailureIsFinal ==
  /\ [](pc = "done" =>
          /\ iter = FreshIter
          /\ nSent = 0
          /\ lastMsg = NoMsg
          /\ messageBuffer = NoBuffer
          /\ connClosed
          /\ sequence = 1)
  /\ [][pc = "done" => pc' = "done"]_vars

\* The allocation has failed and mainLoop has returned.
C14_Witness ==
  /\ pc = "done"
  /\ ~iter.started
  /\ initReturn = "false"

-----------------------------------------------------------------------------
(* C15 *)

\* C15: while the thread keeps running, a connection reported closed leads to
\* a further openSocket() call; and if from some point on the connection
\* stays open and no poll finds data, keep-alives are written again and again.
C15_SelfHealing ==
  /\ (pc \in LoopPcs /\ connClosed) ~> (pc = "open")
  /\ <>[](pc \in LoopPcs /\ ~connClosed /\ ~dataIsAvailable) =>
       []<>(IterationEnded /\ ConnectedIdleTick(iter) /\ iter.write = 1)

\* A keep-alive was written in the iteration whose openSocket() reconnected
\* after the connection had been lost.
C15_Witness ==
  /\ IterationEnded
  /\ iter.open = 1
  /\ iter.retest = "open"
  /\ ConnectedIdleTick(iter)
  /\ iter.write = 1
  /\ nSent >= 2

-----------------------------------------------------------------------------
(* C16 *)

\* C16: openSocket() is about to be called only in an iteration whose first
\* isConnectionClosed() returned true, with the connection still reported
\* closed and no openSocket() made in that iteration yet; no iteration calls
\* it twice.
C16_OpenOnlyWhenClosed ==
  /\ pc = "open" =>
       /\ connClosed
       /\ iter.started
       /\ iter.open = 0
       /\ iter.retest = "none"
  /\ iter.open <= 1
  /\ iter.open = 1 => pc # "open"

\* The loop is about to reconnect after a connection on which it had sent
\* messages was lost.
C16_Witness ==
  /\ pc = "open"
  /\ connClosed
  /\ nSent >= 1
  /\ ~allClosed

-----------------------------------------------------------------------------
(* C17 *)

\* The thread of the agent is running or has run.
ThreadPcs == LoopPcs \cup {"setup", "done"}

\* The steps from a decoded message to the end of its handling.
DispatchPcs == {"dispatch", "capsEncode", "capsWrite"}

\* C17: in every state of the thread the configuration fields hold the values
\* init copied; no step of the thread changes them or the delay configured on
\* the transport; the handling of a decoded message leaves the connection as
\* it is; the sequence counter is changed only where a header is stamped.
C17_LoopKeepsIdentity ==
  /\ [](pc \in ThreadPcs =>
          priv = [controllerAddress |-> args.controller_addr,
                  controllerPort |-> args.controller_port,
                  delayms |-> args.delayms, pci |-> args.pci,
                  dlEarfcn |-> args.dl_earfcn, ulEarfcn |-> args.ul_earfcn,
                  nPrb |-> args.n_prb, enbId |-> args.enb_id])
  /\ [][(pc \in ThreadPcs) => (priv' = priv /\ args' = args)]_vars
  /\ [][(pc \in LoopPcs) => ioDelay' = ioDelay]_vars
  /\ [][(pc \in DispatchPcs /\ pc' # pc) => connClosed' = connClosed]_vars
  /\ [][(pc \in ThreadPcs /\ sequence' # sequence) =>
          pc \in {"capsEncode", "helloEncode"}]_vars

\* Both messages were built from the identity and it is as init left it.
C17_Witness ==
  /\ IterationEnded
  /\ after.seq # NoSeq
  /\ after.hellos >= 1
  /\ Decoded({"REQUEST_SET"}, {"OTHER_SERVICE"})
  /\ priv.pci = args.pci

-----------------------------------------------------------------------------
(* C18 *)

\* C18, as stated: every iteration reads at most once and writes at most
\* once, and between iterations the sequence counter minus 1 is the number
\* of writeMessage calls.
C18_CounterMinusOneIsWrites ==
  /\ iter.read <= 1
  /\ iter.write <= 1
  /\ (pc = "top" /\ nSent <= MaxSent) => sequence - 1 = nSent

\* C18, amended: every iteration reads at most once, stamps at most one
\* header and writes at most once, the stamp before the write and both
\* before the next read; between iterations every stamped header has been
\* written, whatever writeMessage returned, and the sequence counter is 1
\* plus the number of writeMessage calls modulo the width of the counter.
C18_OneStampPerWrite ==
  /\ iter.read <= 1
  /\ iter.fill <= 1
  /\ iter.write <= 1
  /\ iter.fill - iter.write = Stamped
  /\ IterationEnded => iter.fill = iter.write
  /\ pc = "read" => (iter.fill = 0 /\ iter.write = 0 /\ iter.read = 0)
  /\ (pc \in {"top", "read"} /\ nSent <= MaxSent) =>
       sequence = (1 + nSent) % SeqModulus
  /\ len \in {"none", "zero", "all"}

\* A response was written for a message read in the same iteration, the
\* write returned 0 bytes, and the counter has wrapped.
C18_Witness ==
  /\ IterationEnded
  /\ iter.read = 1
  /\ iter.write = 1
  /\ len = "zero"
  /\ nSent = SeqModulus
  /\ sequence = (1 + nSent) % SeqModulus

-----------------------------------------------------------------------------
(* C19 *)

\* The statements of the periodic branch, lines 221-251.
PeriodicPcs == {"log", "sendCheck", "helloEncode", "helloWrite"}

\* C19: the periodic branch runs only in an iteration without available
\* data, and a keep-alive is stamped only after a poll that timed out; an
\* iteration whose poll found data made no send check and wrote at most a
\* capabilities response; as long as no poll has timed out no keep-alive was
\* ever written.
C19_KeepAliveOnlyAfterTimeout ==
  /\ pc \in PeriodicPcs => (~dataIsAvailable /\ performPeriodicTasks /\ iter.read = 0)
  /\ pc \in {"helloEncode", "helloWrite"} => (iter.poll = 1 /\ everTimedOut)
  /\ dataIsAvailable =>
       /\ iter.sendCheck = "none"
       /\ iter.write = 1 => lastMsg.entityClass = "CAPABILITIES_SERVICE"
  /\ ~everTimedOut =>
       /\ lastMsg.entityClass # "HELLO_SERVICE"
       /\ after.hellos = 0

\* Data on every poll so far: responses were written and an empty read just
\* ended an iteration, with no keep-alive ever sent.
C19_Witness ==
  /\ IterationEnded
  /\ dataIsAvailable
  /\ messageBuffer.kind = "empty"
  /\ ~everTimedOut
  /\ nSent >= 2
  /\ after.hellos = 0

====
